---- MODULE Spec2Model ----
\* Model of nira_backend.data_models.measurements (WeightMeasurement,
\* LengthMeasurement, BodyShapeMeasurements).
\*
\* Numbers.  The Python fields are floats; the model uses exact decimal
\* fixed point so that the conversion factors are applied exactly:
\*   - a length value is an integer number of hundredths of its unit
\*     (30 cm is 3000, 76.2 cm is 7620);
\*   - a weight value is an integer number of millionths of its unit
\*     (100 lb is 100000000, 45.3592 kg is 45359200).
\* Binary rounding of IEEE doubles is not modelled.
EXTENDS Integers, Sequences, FiniteSets, TLC

\* ------------------------------------------------------------------ bounds
\* Number of LengthMeasurement instances the caller holds.
MaxObjs == 1

LenIds == 1..MaxObjs

\* ------------------------------------------------------------- inputs
\* (value, unit) pairs handed to the LengthMeasurement constructor.  The
\* unit "" stands for "unit not given" (the field default applies).
\* LenInputs feeds the measurement life cycle (Spec), BodyLenInputs the
\* construction of BodyShapeMeasurements (SpecBody): values on both sides
\* of every anatomical bound and of the constructor's own range.
LenInputs ==
    {[value |-> 3000, unit |-> "cm"], [value |-> 30000, unit |-> "cm"],
     [value |-> 18000, unit |-> "m"], [value |-> 7000, unit |-> "in"],
     [value |-> 6000, unit |-> "ft"], [value |-> 30000, unit |-> "ft"],
     [value |-> 18000, unit |-> ""], [value |-> 18000, unit |-> "mm"],
     [value |-> 2950, unit |-> "cm"], [value |-> 30050, unit |-> "in"],
     [value |-> 0 - 100, unit |-> "cm"]}

BodyLenInputs ==
    {[value |-> v, unit |-> "cm"] :
        v \in {1700, 1800, 2800, 3000, 4000, 4100, 6000, 6100,
               15000, 15100, 20000, 20100}}
    \cup {[value |-> 3000, unit |-> "in"], [value |-> 30000, unit |-> "ft"],
          [value |-> 3000, unit |-> "m"]}

\* (value, unit) pairs handed to the WeightMeasurement constructor.
WeightInputs ==
    {[value |-> v, unit |-> "kg"] : v \in {500000, 70500000, 150000000, 151000000}}
    \cup {[value |-> 100000000, unit |-> "lb"], [value |-> 150000000, unit |-> "lb"],
          [value |-> 151000000, unit |-> "lb"], [value |-> 600000, unit |-> "kg"],
          [value |-> 100000000, unit |-> "g"], [value |-> 1000000, unit |-> "g"],
          [value |-> 70000000, unit |-> ""], [value |-> 70000000, unit |-> "oz"],
          [value |-> 0 - 1000000, unit |-> "kg"]}

\* ------------------------------------------------------------- objects
\* A slot that holds no instance.
NoObj == [value |-> 0, unit |-> "-"]

Return(v) == [raised |-> "", ret |-> v]
Raise(kind) == [raised |-> kind, ret |-> 0]

\* BaseMeasurement.validate_value
validate_value(value) == value >= 0

\* value * 0.453592 on millionths, without leaving 32-bit integers:
\* floor(value * 453592 / 10^6), computed digit group by digit group.
TimesLbFactor(value) ==
    LET q == value \div 1000000
        r == value % 1000000
    IN  q * 453592
        + (((r \div 1000) * 453592 + ((r % 1000) * 453592) \div 1000) \div 1000)

\* WeightMeasurement(value=..., unit=...): the validated constructor.
WeightUnits == {"kg", "lb", "g"}

\* The constructor with the range checked on the kilogram value instead of
\* the value as given.
WeightCtorOk_on_kg_value(in) ==
    /\ validate_value(in.value)
    /\ in.unit \in WeightUnits \cup {""}
    /\ LET kg == IF in.unit = "lb" THEN TimesLbFactor(in.value)
                 ELSE IF in.unit = "g" THEN in.value \div 1000
                 ELSE in.value
       IN  kg > 500000 /\ kg <= 150000000

WeightCtorOk(in) ==
    /\ validate_value(in.value)
    /\ in.value > 500000
    /\ in.value <= 150000000
    /\ in.unit \in WeightUnits \cup {""}

WeightCtorObj(in) ==
    [value |-> in.value, unit |-> IF in.unit = "" THEN "kg" ELSE in.unit]

\* convert_to_kg with grams divided by 100 instead of 1000.
convert_to_kg_wrong_gram_factor(self) ==
    IF self.unit = "kg" THEN Return(self.value)
    ELSE IF self.unit = "lb" THEN Return(TimesLbFactor(self.value))
    ELSE IF self.unit = "g" THEN Return(self.value \div 100)
    ELSE Raise("ValueError")

\* WeightMeasurement.convert_to_kg
convert_to_kg(self) ==
    IF self.unit = "kg" THEN Return(self.value)
    ELSE IF self.unit = "lb" THEN Return(TimesLbFactor(self.value))
    ELSE IF self.unit = "g" THEN Return(self.value \div 1000)
    ELSE Raise("ValueError")

\* set_unit_to_kg that converts the value and forgets to set the unit.
set_unit_to_kg_keeps_unit(self) ==
    IF self.unit # "kg"
    THEN LET r == convert_to_kg(self)
         IN  IF r.raised # ""
             THEN [raised |-> r.raised, self |-> self]
             ELSE [raised |-> "", self |-> [value |-> r.ret, unit |-> self.unit]]
    ELSE [raised |-> "", self |-> self]

\* WeightMeasurement.set_unit_to_kg: the instance after the call, and the
\* exception the call ends with ("" for none).
set_unit_to_kg(self) ==
    IF self.unit # "kg"
    THEN LET r == convert_to_kg(self)
         IN  IF r.raised # ""
             THEN [raised |-> r.raised, self |-> self]
             ELSE [raised |-> "", self |-> [value |-> r.ret, unit |-> "kg"]]
    ELSE [raised |-> "", self |-> self]

\* LengthMeasurement(value=..., unit=...): the validated constructor.
LengthUnits == {"cm", "m", "in", "ft"}

LengthCtorOk(in) ==
    /\ validate_value(in.value)
    /\ in.value >= 3000
    /\ in.value <= 30000
    /\ in.unit \in LengthUnits \cup {""}

LengthCtorObj(in) ==
    [value |-> in.value, unit |-> IF in.unit = "" THEN "cm" ELSE in.unit]

\* convert_to_cm that returns the value as it is for an unknown unit.
convert_to_cm_defaulting(self) ==
    IF self.unit = "cm" THEN Return(self.value)
    ELSE IF self.unit = "m" THEN Return(self.value * 100)
    ELSE IF self.unit = "in" THEN Return((self.value * 127) \div 50)
    ELSE IF self.unit = "ft" THEN Return((self.value * 762) \div 25)
    ELSE Return(self.value)

\* LengthMeasurement.convert_to_cm (2.54 = 127/50, 30.48 = 762/25)
convert_to_cm(self) ==
    IF self.unit = "cm" THEN Return(self.value)
    ELSE IF self.unit = "m" THEN Return(self.value * 100)
    ELSE IF self.unit = "in" THEN Return((self.value * 127) \div 50)
    ELSE IF self.unit = "ft" THEN Return((self.value * 762) \div 25)
    ELSE Raise("ValueError")

\* set_unit_to_cm that converts the value and forgets to set the unit.
set_unit_to_cm_keeps_unit(self) ==
    IF self.unit # "cm"
    THEN LET r == convert_to_cm(self)
         IN  IF r.raised # ""
             THEN [raised |-> r.raised, self |-> self]
             ELSE [raised |-> "", self |-> [value |-> r.ret, unit |-> self.unit]]
    ELSE [raised |-> "", self |-> self]

\* LengthMeasurement.set_unit_to_cm
set_unit_to_cm(self) ==
    IF self.unit # "cm"
    THEN LET r == convert_to_cm(self)
         IN  IF r.raised # ""
             THEN [raised |-> r.raised, self |-> self]
             ELSE [raised |-> "", self |-> [value |-> r.ret, unit |-> "cm"]]
    ELSE [raised |-> "", self |-> self]

\* ------------------------------------------------- BodyShapeMeasurements
Fields == <<"neck_circumference", "waist_circumference", "hip_circumference",
            "wrist_circumference", "forearm_circumference">>

FieldNames == {Fields[k] : k \in 1..Len(Fields)}

\* What a keyword argument of the constructor can be: left out (Unset),
\* None, or a reference to one of the caller's LengthMeasurement instances.
Unset == 0 - 1
None == 0

NeckMin == 800
NeckMax == 6000
WaistMin == 2000
WaistMax == 15000
HipMin == 2000
HipMax == 20000
WristMin == 500
WristMax == 4000

NeckMsg == "Neck circumference must be between 8 cm and 60 cm"
WaistMsg == "Waist circumference must be between 20 cm and 150 cm"
HipMsg == "Hip circumference must be between 20 cm and 200 cm"
WristMsg == "Wrist circumference must be between 5 cm and 40 cm"
UnitMsg == "Unsupported unit for length conversion"

\* The four bound validators.  The argument is the instance the field
\* holds, NoObj for None; the result is the message of the ValueError
\* the validator raises, "" when it returns normally.
BoundCheck(obj, lo, hi, msg) ==
    IF obj = NoObj THEN ""
    ELSE LET c == convert_to_cm(obj)
         IN  IF c.raised # "" THEN UnitMsg
             ELSE IF ~(lo <= c.ret /\ c.ret <= hi) THEN msg
             ELSE ""

\* validate_neck with an open upper bound (< 60 instead of <= 60).
validate_neck_open(neck) ==
    IF neck = NoObj THEN ""
    ELSE LET c == convert_to_cm(neck)
         IN  IF c.raised # "" THEN UnitMsg
             ELSE IF ~(NeckMin <= c.ret /\ c.ret < NeckMax) THEN NeckMsg
             ELSE ""

validate_neck(neck) == BoundCheck(neck, NeckMin, NeckMax, NeckMsg)

validate_waist(waist) == BoundCheck(waist, WaistMin, WaistMax, WaistMsg)

validate_hip(hip) == BoundCheck(hip, HipMin, HipMax, HipMsg)

\* validate_wrist without the "is not None" test.
validate_wrist_no_none_test(wrist) ==
    LET c == convert_to_cm(wrist)
    IN  IF c.raised # "" THEN UnitMsg
        ELSE IF ~(WristMin <= c.ret /\ c.ret <= WristMax) THEN WristMsg
        ELSE ""

validate_wrist(wrist) == BoundCheck(wrist, WristMin, WristMax, WristMsg)

\* field_validator with the wrist bound attached to the forearm as well.
field_validator_forearm_bound(f, obj) ==
    IF f = "neck_circumference" THEN validate_neck(obj)
    ELSE IF f = "waist_circumference" THEN validate_waist(obj)
    ELSE IF f = "hip_circumference" THEN validate_hip(obj)
    ELSE validate_wrist(obj)

\* The validator a @field_validator("<name>") decorator attaches to a field.
field_validator(f, obj) ==
    IF f = "neck_circumference" THEN validate_neck(obj)
    ELSE IF f = "waist_circumference" THEN validate_waist(obj)
    ELSE IF f = "hip_circumference" THEN validate_hip(obj)
    ELSE IF f = "wrist_circumference" THEN validate_wrist(obj)
    ELSE ""

\* set_measurement_in_cm that normalizes a copy and leaves the caller's
\* instance as it was.
set_measurement_in_cm_on_copy(bodyshape, h) ==
    IF bodyshape # None
    THEN LET r == set_unit_to_cm(h[bodyshape])
         IN  [h |-> h, err |-> IF r.raised # "" THEN UnitMsg ELSE ""]
    ELSE [h |-> h, err |-> ""]

\* set_measurement_in_cm, the "*" validator: normalizes the instance the
\* argument refers to, in the caller's heap h.
set_measurement_in_cm(bodyshape, h) ==
    IF bodyshape # None
    THEN LET r == set_unit_to_cm(h[bodyshape])
         IN  [h |-> [h EXCEPT ![bodyshape] = r.self],
              err |-> IF r.raised # "" THEN UnitMsg ELSE ""]
    ELSE [h |-> h, err |-> ""]

\* Validation of one field: a field left out keeps its default and runs no
\* validator; otherwise the validators run in definition order and the
\* first ValueError ends the field's validation.
ValidateField(f, a, h) ==
    IF a = Unset THEN [h |-> h, err |-> ""]
    ELSE LET n == set_measurement_in_cm(a, h)
         IN  IF n.err # "" THEN n
             ELSE [h |-> n.h,
                   err |-> field_validator(f, IF a = None THEN NoObj ELSE n.h[a])]

\* Validation of the fields k..5 in declaration order; every field is
\* validated, the errors are collected.
RECURSIVE ValidateFields(_, _, _, _)
ValidateFields(k, args, h, errs) ==
    IF k > Len(Fields) THEN [h |-> h, errs |-> errs]
    ELSE LET r == ValidateField(Fields[k], args[Fields[k]], h)
         IN  ValidateFields(k + 1, args, r.h,
                            [errs EXCEPT ![Fields[k]] = r.err])

NoErrs == [f \in FieldNames |-> ""]

NoFields == [f \in FieldNames |-> None]

\* ------------------------------------------------------------- state
VARIABLES
    lm,     \* the caller's LengthMeasurement instances, by reference
    wm,     \* the caller's WeightMeasurement instance
    body,   \* the BodyShapeMeasurements instance, or the failed attempt
    bcall,  \* the arguments of the BodyShapeMeasurements call and its errors
    last,   \* the last operation: its name, target, argument and outcome
    lmAt,   \* measurement_date and measurement_time of each LengthMeasurement
    wmAt,   \* measurement_date and measurement_time of the WeightMeasurement
    assigns, \* number of attribute assignments made so far
    human,  \* the caller's Human instance
    today,  \* what date.today() returns
    thr     \* the threads that share the WeightMeasurement: position and locals

vars == <<lm, wm, body, bcall, last, lmAt, wmAt, assigns, human, today, thr>>

\* The variables of the Human record and of the threads.
others == <<human, today, thr>>

\* measurement_date (year, month, day) and measurement_time (seconds since
\* midnight); DocStamp is the one of the docstring examples.
DocStamp == [measurement_date |-> <<2023, 10, 1>>, measurement_time |-> 30600]

Stamps == {DocStamp, [measurement_date |-> <<2024, 2, 29>>, measurement_time |-> 0]}

NoStamp == [measurement_date |-> <<0, 0, 0>>, measurement_time |-> 0]

NoHuman == [name |-> "", gender |-> "-", date_of_birth |-> <<0, 0, 0>>,
            weight |-> 0, height |-> 0]

Today0 == <<2026, 11, 3>>

Threads == {1, 2}

\* A thread that has not made its call: pc is its position, op the method
\* it calls, k the unit test of the conversion it is at, ret and raised the
\* outcome of the conversion; at (the measurement as it was before the
\* first call) and overlap (the call began while the other thread was
\* inside its call) are history.
Idle == [pc |-> "idle", op |-> "", k |-> 0, ret |-> 0, raised |-> "",
         at |-> NoObj, overlap |-> FALSE]

NoBody == [state |-> "none", fields |-> NoFields]

NoCall == [args |-> [f \in FieldNames |-> Unset], pre |-> [i \in LenIds |-> NoObj],
           errs |-> NoErrs]

Op(op, id, pre, raised, ret) ==
    [op |-> op, id |-> id, pre |-> pre, raised |-> raised, ret |-> ret]

Init ==
    /\ lm = [i \in LenIds |-> NoObj]
    /\ wm = NoObj
    /\ body = NoBody
    /\ bcall = NoCall
    /\ last = Op("", 0, NoObj, "", 0)
    /\ lmAt = [i \in LenIds |-> NoStamp]
    /\ wmAt = NoStamp
    /\ assigns = 0
    /\ human = NoHuman
    /\ today = Today0
    /\ thr = [t \in Threads |-> Idle]

\* The lowest free reference.
FreeId == CHOOSE i \in LenIds : lm[i] = NoObj /\ \A j \in LenIds : j < i => lm[j] # NoObj

\* w = WeightMeasurement(measurement_date=at.measurement_date,
\*         measurement_time=at.measurement_time, value=in.value, unit=in.unit)
NewWeightAt(in, at) ==
    /\ wm = NoObj
    /\ IF WeightCtorOk(in)
       THEN /\ wm' = WeightCtorObj(in)
            /\ wmAt' = at
            /\ last' = Op("WeightMeasurement", 0, in, "", 0)
       ELSE /\ wm' = wm
            /\ wmAt' = wmAt
            /\ last' = Op("WeightMeasurement", 0, in, "ValidationError", 0)
    /\ UNCHANGED <<lm, body, bcall, lmAt, assigns>>
    /\ UNCHANGED others

\* The same with the date and time of the docstring example.
NewWeight(in) == NewWeightAt(in, DocStamp)

\* w.convert_to_kg() that stores what it computed.
ConvertToKg_storing ==
    /\ wm # NoObj
    /\ LET r == convert_to_kg(wm)
       IN  /\ last' = Op("convert_to_kg", 0, wm, r.raised, r.ret)
           /\ wm' = IF r.raised = "" THEN [wm EXCEPT !.value = r.ret] ELSE wm
    /\ UNCHANGED <<lm, body, bcall, lmAt, wmAt, assigns>>
    /\ UNCHANGED others

\* w.convert_to_kg()
ConvertToKg ==
    /\ wm # NoObj
    /\ LET r == convert_to_kg(wm)
       IN  last' = Op("convert_to_kg", 0, wm, r.raised, r.ret)
    /\ UNCHANGED <<lm, wm, body, bcall, lmAt, wmAt, assigns>>
    /\ UNCHANGED others

\* SetUnitToKg that writes the unit before it converts the value.
SetUnitToKg_unit_first ==
    /\ wm # NoObj
    /\ LET r == set_unit_to_kg(wm)
       IN  /\ wm' = [r.self EXCEPT !.unit = "kg"]
           /\ last' = Op("set_unit_to_kg", 0, wm, r.raised, 0)
    /\ UNCHANGED <<lm, body, bcall, lmAt, wmAt, assigns>>
    /\ UNCHANGED others

\* w.set_unit_to_kg()
SetUnitToKg ==
    /\ wm # NoObj
    /\ LET r == set_unit_to_kg(wm)
       IN  /\ wm' = r.self
           /\ last' = Op("set_unit_to_kg", 0, wm, r.raised, 0)
    /\ UNCHANGED <<lm, body, bcall, lmAt, wmAt, assigns>>
    /\ UNCHANGED others

\* x = LengthMeasurement(measurement_date=at.measurement_date,
\*         measurement_time=at.measurement_time, value=in.value, unit=in.unit)
NewLengthAt(in, at) ==
    /\ \E i \in LenIds : lm[i] = NoObj
    /\ IF LengthCtorOk(in)
       THEN /\ lm' = [lm EXCEPT ![FreeId] = LengthCtorObj(in)]
            /\ lmAt' = [lmAt EXCEPT ![FreeId] = at]
            /\ last' = Op("LengthMeasurement", FreeId, in, "", 0)
       ELSE /\ lm' = lm
            /\ lmAt' = lmAt
            /\ last' = Op("LengthMeasurement", 0, in, "ValidationError", 0)
    /\ UNCHANGED <<wm, body, bcall, wmAt, assigns>>
    /\ UNCHANGED others

\* The same with the date and time of the docstring example.
NewLength(in) == NewLengthAt(in, DocStamp)

\* x.convert_to_cm()
ConvertToCm(i) ==
    /\ lm[i] # NoObj
    /\ LET r == convert_to_cm(lm[i])
       IN  last' = Op("convert_to_cm", i, lm[i], r.raised, r.ret)
    /\ UNCHANGED <<lm, wm, body, bcall, lmAt, wmAt, assigns>>
    /\ UNCHANGED others

\* x.set_unit_to_cm()
SetUnitToCm(i) ==
    /\ lm[i] # NoObj
    /\ LET r == set_unit_to_cm(lm[i])
       IN  /\ lm' = [lm EXCEPT ![i] = r.self]
           /\ last' = Op("set_unit_to_cm", i, lm[i], r.raised, 0)
    /\ UNCHANGED <<wm, body, bcall, lmAt, wmAt, assigns>>
    /\ UNCHANGED others

\* The argument lists of a BodyShapeMeasurements call: each field is left
\* out, None, or one of the caller's instances (the same instance may be
\* passed for several fields).
BodyArgs == [FieldNames -> {Unset, None} \cup {i \in LenIds : lm[i] # NoObj}]

\* The constructor proper, on the argument list args.
Construct(args) ==
    LET r == ValidateFields(1, args, lm, NoErrs)
    IN  /\ lm' = r.h
        /\ bcall' = [args |-> args, pre |-> lm, errs |-> r.errs]
        /\ IF r.errs = NoErrs
           THEN /\ body' = [state |-> "ok",
                            fields |-> [f \in FieldNames |->
                                IF args[f] = Unset THEN None ELSE args[f]]]
                /\ last' = Op("BodyShapeMeasurements", 0, NoObj, "", 0)
           ELSE /\ body' = [state |-> "failed", fields |-> NoFields]
                /\ last' = Op("BodyShapeMeasurements", 0, NoObj, "ValidationError", 0)

\* b = BodyShapeMeasurements(neck_circumference=..., ...), the one
\* construction the model follows.  An instance passed in is taken as it is
\* (pydantic does not copy or re-validate a model instance), so a field of
\* b refers to the caller's instance.
NewBodyShape ==
    /\ body = NoBody
    /\ bcall = NoCall
    /\ \E args \in BodyArgs : Construct(args)
    /\ UNCHANGED <<wm, lmAt, wmAt, assigns>>
    /\ UNCHANGED others

\* b.<f>.value = v: plain attribute assignment through the field of b
\* (no model sets validate_assignment, so nothing is checked).
AssignThroughBody(f, v) ==
    /\ body.state = "ok"
    /\ body.fields[f] # None
    /\ lm' = [lm EXCEPT ![body.fields[f]].value = v]
    /\ last' = Op("setattr", body.fields[f], lm[body.fields[f]], "", v)
    /\ UNCHANGED <<wm, body, bcall, lmAt, wmAt, assigns>>
    /\ UNCHANGED others

AssignInputs == {4500}

\* The life cycle of the measurement instances.
Next ==
    \/ \E in \in WeightInputs : NewWeight(in)
    \/ ConvertToKg
    \/ SetUnitToKg
    \/ \E in \in LenInputs : NewLength(in)
    \/ \E i \in LenIds : ConvertToCm(i)
    \/ \E i \in LenIds : SetUnitToCm(i)

Spec == Init /\ [][Next]_vars

\* The construction of a BodyShapeMeasurements from the caller's instances.
NextBody ==
    \/ \E in \in BodyLenInputs : NewLength(in)
    \/ \E i \in LenIds : SetUnitToCm(i)
    \/ NewBodyShape
    \/ \E f \in FieldNames, v \in AssignInputs : AssignThroughBody(f, v)

SpecBody == Init /\ [][NextBody]_vars

\* ------------------------------------------- attribute assignment
\* Bound on the number of attribute assignments in one behaviour.
MaxAssign == 2

\* Units written by plain assignment: one outside the Literal of the
\* field, one inside it.
WeightUnitInputs == {"oz", "lb"}

LengthUnitInputs == {"mm", "in"}

\* Constructor arguments of the behaviours with attribute assignment.
AssignWeightInputs ==
    {[value |-> 100000000, unit |-> "lb"], [value |-> 70500000, unit |-> "kg"],
     [value |-> 70000000, unit |-> "oz"]}

AssignLenInputs ==
    {[value |-> 7000, unit |-> "in"], [value |-> 3000, unit |-> "cm"],
     [value |-> 18000, unit |-> "mm"]}

\* w.unit = u.  The models set no validate_assignment, so pydantic stores
\* the value without looking at the Literal of the field.
AssignWeightUnit(u) ==
    /\ wm # NoObj
    /\ assigns < MaxAssign
    /\ assigns' = assigns + 1
    /\ wm' = [wm EXCEPT !.unit = u]
    /\ last' = Op("setattr", 0, wm, "", 0)
    /\ UNCHANGED <<lm, body, bcall, lmAt, wmAt>>
    /\ UNCHANGED others

\* x.unit = u
AssignLengthUnit(i, u) ==
    /\ lm[i] # NoObj
    /\ assigns < MaxAssign
    /\ assigns' = assigns + 1
    /\ lm' = [lm EXCEPT ![i].unit = u]
    /\ last' = Op("setattr", i, lm[i], "", 0)
    /\ UNCHANGED <<wm, body, bcall, lmAt, wmAt>>
    /\ UNCHANGED others

\* The life cycle of the measurement instances, attribute assignment and
\* the date and time of a measurement included.
NextAssign ==
    \/ \E in \in AssignWeightInputs, at \in Stamps : NewWeightAt(in, at)
    \/ ConvertToKg
    \/ SetUnitToKg
    \/ \E in \in AssignLenInputs, at \in Stamps : NewLengthAt(in, at)
    \/ \E i \in LenIds : ConvertToCm(i)
    \/ \E i \in LenIds : SetUnitToCm(i)
    \/ \E u \in WeightUnitInputs : AssignWeightUnit(u)
    \/ \E i \in LenIds, u \in LengthUnitInputs : AssignLengthUnit(i, u)

SpecAssign == Init /\ [][NextAssign]_vars

\* Values written by plain assignment, all below the 30 of the field:
\* 4 (below every anatomical bound), 10 (between the wrist's 5 and the
\* 20 of waist and hip), 25 (inside every anatomical interval).
LengthValueInputs == {400, 1000, 2500}

\* Constructor arguments of the behaviours with value assignment.
ValueLenInputs ==
    {[value |-> 3000, unit |-> "cm"], [value |-> 4000, unit |-> "in"],
     [value |-> 20100, unit |-> "cm"]}

\* x.value = v on an instance not yet handed to BodyShapeMeasurements.
\* Field(ge=30, le=300) is looked at by the constructor only, so the value
\* is stored as it is.
AssignLengthValue(i, v) ==
    /\ lm[i] # NoObj
    /\ body = NoBody
    /\ bcall = NoCall
    /\ assigns < MaxAssign
    /\ assigns' = assigns + 1
    /\ lm' = [lm EXCEPT ![i].value = v]
    /\ last' = Op("setattr", i, lm[i], "", v)
    /\ UNCHANGED <<wm, body, bcall, lmAt, wmAt>>
    /\ UNCHANGED others

\* The construction of a BodyShapeMeasurements from instances whose value
\* the caller may have assigned.
NextBodyValue ==
    \/ \E in \in ValueLenInputs : NewLength(in)
    \/ \E i \in LenIds, v \in LengthValueInputs : AssignLengthValue(i, v)
    \/ NewBodyShape

SpecBodyValue == Init /\ [][NextBodyValue]_vars

\* ------------------------------------------------------------- Human
\* nira_backend.data_models.human.  A date is <<year, month, day>>, a name
\* is the sequence of its characters, a weight is an integer number of
\* tenths of a kilogram, a height an integer number of centimeters, a BMI
\* an integer number of hundredths.

\* date < date, as Python compares dates.
DateLT(a, b) ==
    \/ a[1] < b[1]
    \/ a[1] = b[1] /\ a[2] < b[2]
    \/ a[1] = b[1] /\ a[2] = b[2] /\ a[3] < b[3]

IsLeap(y) == (y % 4 = 0) /\ ((y % 100 # 0) \/ (y % 400 = 0))

DaysBeforeMonth(y, m) ==
    <<0, 31, 59, 90, 120, 151, 181, 212, 243, 273, 304, 334>>[m]
    + (IF m > 2 /\ IsLeap(y) THEN 1 ELSE 0)

\* date.toordinal(): the day number in the proleptic Gregorian calendar.
ToOrdinal(dt) ==
    LET y == dt[1] - 1
    IN  365 * y + (y \div 4) - (y \div 100) + (y \div 400)
        + DaysBeforeMonth(dt[1], dt[2]) + dt[3]

\* timedelta(days=150 * 365.25).days: date - timedelta uses whole days only.
MaxAgeDays == 54787

IsSpace(c) == c = " "

RECURSIVE lstrip(_)
lstrip(value) ==
    IF value # <<>> /\ IsSpace(Head(value)) THEN lstrip(Tail(value)) ELSE value

RECURSIVE rstrip(_)
rstrip(value) ==
    IF value # <<>> /\ IsSpace(value[Len(value)])
    THEN rstrip(SubSeq(value, 1, Len(value) - 1))
    ELSE value

\* str.strip()
strip(value) == rstrip(lstrip(value))

NameMsg == "Name cannot be empty or just whitespace"
FutureMsg == "Date of birth cannot be later than today"
TooOldMsg == "Date of birth cannot be more than 150 years ago"

\* Human.validate_name: the error message ("" for none) and the value kept.
validate_name(value) ==
    LET stripped == strip(value)
    IN  IF stripped = <<>> THEN [err |-> NameMsg, value |-> value]
        ELSE [err |-> "", value |-> stripped]

\* validate_date_of_birth with today itself refused (>= instead of >).
validate_date_of_birth_today_refused(value, tdy) ==
    IF ~DateLT(value, tdy) THEN FutureMsg
    ELSE IF ToOrdinal(value) < ToOrdinal(tdy) - MaxAgeDays THEN TooOldMsg
    ELSE ""

\* Human.validate_date_of_birth, with tdy what date.today() returns.
validate_date_of_birth(value, tdy) ==
    IF DateLT(tdy, value) THEN FutureMsg
    ELSE IF ToOrdinal(value) < ToOrdinal(tdy) - MaxAgeDays THEN TooOldMsg
    ELSE ""

Genders == {"male", "female", "undisclosed"}

\* The errors of Human(...), by field ("" for none): the Field constraints
\* first, then the field's validator.
HumanErrs(in, tdy) ==
    [name |-> IF Len(in.name) < 1 THEN "min_length" ELSE validate_name(in.name).err,
     gender |-> IF in.gender \in Genders THEN "" ELSE "literal_error",
     date_of_birth |-> validate_date_of_birth(in.date_of_birth, tdy),
     weight |-> IF in.weight > 5 /\ in.weight <= 5000 THEN "" ELSE "out_of_range",
     height |-> IF in.height >= 30 /\ in.height <= 300 THEN "" ELSE "out_of_range"]

NoHumanErrs ==
    [name |-> "", gender |-> "", date_of_birth |-> "", weight |-> "", height |-> ""]

\* The record Human(...) builds when no field is in error.
HumanObj(in) == [in EXCEPT !.name = validate_name(in.name).value]

\* get_age without the "birthday not yet reached" adjustment going wrong
\* way: the adjustment also made on the birthday itself.
get_age_on_birthday_too(self, tdy) ==
    LET age == tdy[1] - self.date_of_birth[1]
    IN  IF ~DateLT(<<0, self.date_of_birth[2], self.date_of_birth[3]>>,
                  <<0, tdy[2], tdy[3]>>)
        THEN age - 1 ELSE age

\* Human.get_age
get_age(self, tdy) ==
    LET age == tdy[1] - self.date_of_birth[1]
    IN  IF DateLT(<<0, tdy[2], tdy[3]>>,
                  <<0, self.date_of_birth[2], self.date_of_birth[3]>>)
        THEN age - 1 ELSE age

\* round(n / d) to the nearest integer, ties to the even one, as round().
RoundHalfEven(n, d) ==
    LET q == n \div d
        r == n % d
    IN  IF 2 * r > d THEN q + 1
        ELSE IF 2 * r < d THEN q
        ELSE IF q % 2 = 0 THEN q ELSE q + 1

\* bmi that cuts the third decimal off instead of rounding.
bmi_truncating(self) ==
    IF self.height = 0 THEN Raise("ZeroDivisionError")
    ELSE Return((self.weight * 100000) \div (self.height * self.height))

\* Human.bmi: weight / (height / 100) ** 2 rounded to 2 decimals, in
\* hundredths: (weight/10) / (height/100)^2 * 100 = weight * 10^5 / height^2.
bmi(self) ==
    IF self.height = 0 THEN Raise("ZeroDivisionError")
    ELSE Return(RoundHalfEven(self.weight * 100000, self.height * self.height))

\* Human.bmi_category
bmi_category(self) ==
    LET b == bmi(self)
    IN  IF b.raised # "" THEN [raised |-> b.raised, ret |-> ""]
        ELSE IF b.ret < 1850 THEN [raised |-> "", ret |-> "Underweight"]
        ELSE IF b.ret < 2500 THEN [raised |-> "", ret |-> "Normal weight"]
        ELSE IF b.ret < 3000 THEN [raised |-> "", ret |-> "Overweight"]
        ELSE [raised |-> "", ret |-> "Obese"]

\* Human.serialize_date: strftime("%d-%m-%Y"), the three numbers of the
\* text in the order they are written.
serialize_date(dt) == <<dt[3], dt[2], dt[1]>>

\* Inputs of the Human constructor.
NameInputs == {<<>>, <<" ", " ">>, <<" ", "J", " ", "D", " ">>, <<"J", " ", "D">>}

GenderInputs == {"male", "undisclosed", "other"}

Todays == {Today0, <<2024, 2, 29>>}

DateInputs ==
    {<<2026, 11, 3>>, <<2026, 11, 4>>, <<2024, 2, 29>>, <<2024, 3, 1>>,
     <<1990, 5, 15>>, <<1990, 1, 1>>, <<1990, 12, 25>>,
     <<1876, 11, 2>>, <<1876, 11, 1>>}

HumanWeightInputs == {5, 6, 740, 750, 1000, 5000, 5010}

HumanHeightInputs == {29, 30, 175, 200, 300, 301}

HumanInputs ==
    [name : NameInputs, gender : GenderInputs, date_of_birth : DateInputs,
     weight : HumanWeightInputs, height : HumanHeightInputs]

\* The state in which the Human behaviours start: today is any of Todays.
InitHuman ==
    /\ lm = [i \in LenIds |-> NoObj]
    /\ wm = NoObj
    /\ body = NoBody
    /\ bcall = NoCall
    /\ last = Op("", 0, NoObj, "", 0)
    /\ lmAt = [i \in LenIds |-> NoStamp]
    /\ wmAt = NoStamp
    /\ assigns = 0
    /\ human = NoHuman
    /\ today \in Todays
    /\ thr = [t \in Threads |-> Idle]

measurements == <<lm, wm, body, bcall, lmAt, wmAt, thr>>

\* h = Human(name=..., gender=..., date_of_birth=..., weight=..., height=...),
\* the one construction the model follows.
NewHuman ==
    /\ human = NoHuman
    /\ last.op # "Human"
    /\ \E in \in HumanInputs :
          IF HumanErrs(in, today) = NoHumanErrs
          THEN /\ human' = HumanObj(in)
               /\ last' = Op("Human", 0, in, "", 0)
          ELSE /\ human' = human
               /\ last' = Op("Human", 0, in, "ValidationError", 0)
    /\ UNCHANGED <<today, assigns>>
    /\ UNCHANGED measurements

\* h.get_age()
GetAge ==
    /\ human # NoHuman
    /\ last' = Op("get_age", 0, human, "", get_age(human, today))
    /\ UNCHANGED <<human, today, assigns>>
    /\ UNCHANGED measurements

\* h.bmi
Bmi ==
    /\ human # NoHuman
    /\ LET r == bmi(human)
       IN  last' = Op("bmi", 0, human, r.raised, r.ret)
    /\ UNCHANGED <<human, today, assigns>>
    /\ UNCHANGED measurements

\* h.bmi_category answering from the record as it was before the last
\* assignment (a cached value).
BmiCategory_stale ==
    /\ human # NoHuman
    /\ LET r == bmi_category(IF last.op = "setattr" THEN last.pre ELSE human)
       IN  last' = Op("bmi_category", 0, human, r.raised, r.ret)
    /\ UNCHANGED <<human, today, assigns>>
    /\ UNCHANGED measurements

\* h.bmi_category
BmiCategory ==
    /\ human # NoHuman
    /\ LET r == bmi_category(human)
       IN  last' = Op("bmi_category", 0, human, r.raised, r.ret)
    /\ UNCHANGED <<human, today, assigns>>
    /\ UNCHANGED measurements

\* h.model_dump(mode="json")["date_of_birth"]
Serialize ==
    /\ human # NoHuman
    /\ last' = Op("model_dump", 0, human, "", serialize_date(human.date_of_birth))
    /\ UNCHANGED <<human, today, assigns>>
    /\ UNCHANGED measurements

\* Values written to the fields of a Human by plain assignment.
NameAssignInputs == {<<>>}

GenderAssignInputs == {"other"}

DateAssignInputs == {<<2026, 11, 4>>}

WeightAssignInputs == {0, 1200}

HeightAssignInputs == {0, 200}

\* h.<field> = value.  Human sets no validate_assignment in its
\* model_config, so the value is stored as it is.
AssignHuman(field, value) ==
    /\ human # NoHuman
    /\ assigns < MaxAssign
    /\ assigns' = assigns + 1
    /\ human' = [human EXCEPT ![field] = value]
    /\ last' = Op("setattr", 0, human, "", 0)
    /\ UNCHANGED today
    /\ UNCHANGED measurements

NextHuman ==
    \/ NewHuman
    \/ GetAge
    \/ Bmi
    \/ BmiCategory
    \/ Serialize
    \/ \E v \in NameAssignInputs : AssignHuman("name", v)
    \/ \E v \in GenderAssignInputs : AssignHuman("gender", v)
    \/ \E v \in DateAssignInputs : AssignHuman("date_of_birth", v)
    \/ \E v \in WeightAssignInputs : AssignHuman("weight", v)
    \/ \E v \in HeightAssignInputs : AssignHuman("height", v)

SpecHuman == InitHuman /\ [][NextHuman]_vars

\* ------------------------------------------------------------- threads
\* Two threads call set_unit_to_kg / convert_to_kg (or set_unit_to_cm /
\* convert_to_cm) on one shared measurement, one call each.  A step is one
\* attribute read or write: the interpreter may switch threads between any
\* two of them.
KgOps == {"set_unit_to_kg", "convert_to_kg"}
CmOps == {"set_unit_to_cm", "convert_to_cm"}

\* The units in the order the if/elif chain of the conversion tests them.
UnitChain(op) == IF op \in KgOps THEN <<"kg", "lb", "g">> ELSE <<"cm", "m", "in", "ft">>

TargetUnit(op) == IF op \in KgOps THEN "kg" ELSE "cm"

\* The measurement the call is made on.
Shared(op) == IF op \in KgOps THEN wm ELSE lm[1]

\* What the branch of unit u returns for the value v.
BranchRet(op, u, v) ==
    IF op \in KgOps THEN convert_to_kg([value |-> v, unit |-> u]).ret
    ELSE convert_to_cm([value |-> v, unit |-> u]).ret

Other(t) == CHOOSE u \in Threads : u # t

Running(t) == thr[t].pc \notin {"idle", "done"}

\* Thread t calls op on the shared measurement.
Call(t, op) ==
    /\ thr[t].pc = "idle"
    /\ Shared(op) # NoObj
    /\ thr[Other(t)].pc # "idle" => TargetUnit(thr[Other(t)].op) = TargetUnit(op)
    /\ thr' = [thr EXCEPT ![t] =
          [pc |-> IF op \in {"set_unit_to_kg", "set_unit_to_cm"} THEN "check" ELSE "test",
           op |-> op, k |-> 1, ret |-> 0, raised |-> "",
           at |-> IF thr[Other(t)].pc = "idle" THEN Shared(op) ELSE thr[Other(t)].at,
           overlap |-> Running(Other(t))]]
    /\ UNCHANGED <<lm, wm, body, bcall, last, lmAt, wmAt, assigns, human, today>>

\* set_unit_to_*: if self.unit != "<target>"
StepCheck(t) ==
    /\ thr[t].pc = "check"
    /\ thr' = [thr EXCEPT ![t].pc =
          IF Shared(thr[t].op).unit # TargetUnit(thr[t].op) THEN "test" ELSE "done"]
    /\ UNCHANGED <<lm, wm, body, bcall, last, lmAt, wmAt, assigns, human, today>>

\* convert_to_*: one test self.unit == "<unit>" of the if/elif chain; the
\* else branch raises.
StepTest(t) ==
    /\ thr[t].pc = "test"
    /\ LET ch == UnitChain(thr[t].op)
       IN  thr' = [thr EXCEPT ![t] =
              IF Shared(thr[t].op).unit = ch[thr[t].k] THEN [@ EXCEPT !.pc = "read"]
              ELSE IF thr[t].k < Len(ch) THEN [@ EXCEPT !.k = @ + 1]
              ELSE [@ EXCEPT !.pc = "done", !.raised = "ValueError"]]
    /\ UNCHANGED <<lm, wm, body, bcall, last, lmAt, wmAt, assigns, human, today>>

\* convert_to_*: return self.value <factor>
StepRead(t) ==
    /\ thr[t].pc = "read"
    /\ thr' = [thr EXCEPT ![t] =
          [@ EXCEPT !.ret = BranchRet(thr[t].op, UnitChain(thr[t].op)[thr[t].k],
                                      Shared(thr[t].op).value),
                    !.pc = IF thr[t].op \in {"set_unit_to_kg", "set_unit_to_cm"}
                           THEN "w_value" ELSE "done"]]
    /\ UNCHANGED <<lm, wm, body, bcall, last, lmAt, wmAt, assigns, human, today>>

\* StepWriteValue that stores the value it read before, unconverted.
StepWriteValue_unconverted(t) ==
    /\ thr[t].pc = "w_value"
    /\ thr' = [thr EXCEPT ![t].pc = "w_unit"]
    /\ UNCHANGED <<lm, wm, body, bcall, last, lmAt, wmAt, assigns, human, today>>

\* set_unit_to_*: self.value = <what the conversion returned>
StepWriteValue(t) ==
    /\ thr[t].pc = "w_value"
    /\ IF thr[t].op \in KgOps
       THEN wm' = [wm EXCEPT !.value = thr[t].ret] /\ lm' = lm
       ELSE lm' = [lm EXCEPT ![1].value = thr[t].ret] /\ wm' = wm
    /\ thr' = [thr EXCEPT ![t].pc = "w_unit"]
    /\ UNCHANGED <<body, bcall, last, lmAt, wmAt, assigns, human, today>>

\* set_unit_to_*: self.unit = "<target>"
StepWriteUnit(t) ==
    /\ thr[t].pc = "w_unit"
    /\ IF thr[t].op \in KgOps
       THEN wm' = [wm EXCEPT !.unit = "kg"] /\ lm' = lm
       ELSE lm' = [lm EXCEPT ![1].unit = "cm"] /\ wm' = wm
    /\ thr' = [thr EXCEPT ![t].pc = "done"]
    /\ UNCHANGED <<body, bcall, last, lmAt, wmAt, assigns, human, today>>

\* The measurements the threads share.
ConcWeightInputs ==
    {[value |-> 100000000, unit |-> "lb"], [value |-> 100000000, unit |-> "g"],
     [value |-> 70500000, unit |-> "kg"]}

ConcLenInputs ==
    {[value |-> 7000, unit |-> "in"], [value |-> 18000, unit |-> "m"],
     [value |-> 6000, unit |-> "ft"], [value |-> 3000, unit |-> "cm"]}

NoCallYet == \A t \in Threads : thr[t].pc = "idle"

NextConc ==
    \/ NoCallYet /\ \E in \in ConcWeightInputs : NewWeight(in)
    \/ NoCallYet /\ \E in \in ConcLenInputs : NewLength(in)
    \/ \E t \in Threads, op \in KgOps \cup CmOps : Call(t, op)
    \/ \E t \in Threads : StepCheck(t)
    \/ \E t \in Threads : StepTest(t)
    \/ \E t \in Threads : StepRead(t)
    \/ \E t \in Threads : StepWriteValue(t)
    \/ \E t \in Threads : StepWriteUnit(t)

SpecConc == Init /\ [][NextConc]_vars

\* ================================================================ claims
\* The centimeter equivalent of a (value, unit) pair, by the factor table
\* of the documentation: m x 100, in x 2.54, ft x 30.48.
CmValue(obj) ==
    CASE obj.unit = "cm" -> obj.value
      [] obj.unit = "m" -> obj.value * 100
      [] obj.unit = "in" -> (obj.value * 254) \div 100
      [] obj.unit = "ft" -> (obj.value * 3048) \div 100

\* The documented closed interval of a field, in hundredths of a cm.
Interval(f) ==
    CASE f = "neck_circumference" -> [lo |-> 800, hi |-> 6000, msg |-> NeckMsg]
      [] f = "waist_circumference" -> [lo |-> 2000, hi |-> 15000, msg |-> WaistMsg]
      [] f = "hip_circumference" -> [lo |-> 2000, hi |-> 20000, msg |-> HipMsg]
      [] f = "wrist_circumference" -> [lo |-> 500, hi |-> 4000, msg |-> WristMsg]

Bounded == FieldNames \ {"forearm_circumference"}

Present(f) == bcall.args[f] \in LenIds

\* The instance passed for field f, as it was when the call was made.
Given(f) == bcall.pre[bcall.args[f]]

InInterval(f) ==
    Interval(f).lo <= CmValue(Given(f)) /\ CmValue(Given(f)) <= Interval(f).hi

JustConstructed == last.op = "BodyShapeMeasurements"

\* C1: construction of BodyShapeMeasurements from validly constructed
\* LengthMeasurements succeeds if and only if every present one of neck,
\* waist, hip and wrist has its centimeter value inside its closed interval;
\* a present field outside its interval is reported with the message that
\* names the field and its bounds (neck 60 cm accepted, neck 61 cm rejected).
C1_BoundsDecideConstruction ==
    JustConstructed =>
        /\ (body.state = "ok") <=> (\A f \in Bounded : Present(f) => InInterval(f))
        /\ \A f \in Bounded :
              Present(f) => (bcall.errs[f] = IF InInterval(f) THEN "" ELSE Interval(f).msg)
        /\ \A f \in FieldNames : bcall.errs[f] # "" => f \in Bounded /\ Present(f)
        /\ (Present("neck_circumference")
              /\ Given("neck_circumference") = [value |-> 6000, unit |-> "cm"])
           => bcall.errs["neck_circumference"] = ""
        /\ (Present("neck_circumference")
              /\ Given("neck_circumference") = [value |-> 6100, unit |-> "cm"])
           => (body.state = "failed" /\ bcall.errs["neck_circumference"] = NeckMsg)

\* A neck of exactly 60 cm was passed and the construction succeeded.
C1_Witness ==
    /\ JustConstructed
    /\ body.state = "ok"
    /\ Present("neck_circumference")
    /\ Given("neck_circumference") = [value |-> 6000, unit |-> "cm"]

\* C2: after a successful construction every present field has unit cm and
\* the value its given value/unit converts to, the factor applied once
\* (waist 30 in is stored as 76.2 cm).
C2_FieldsNormalizedOnce ==
    (JustConstructed /\ body.state = "ok") =>
        /\ \A f \in FieldNames :
              body.fields[f] # None =>
                  /\ lm[body.fields[f]].unit = "cm"
                  /\ lm[body.fields[f]].value = CmValue(Given(f))
        /\ (Present("waist_circumference")
              /\ Given("waist_circumference") = [value |-> 3000, unit |-> "in"])
           => lm[body.fields["waist_circumference"]] = [value |-> 7620, unit |-> "cm"]

\* A waist of 30 in was passed and the construction succeeded.
C2_Witness ==
    /\ JustConstructed
    /\ body.state = "ok"
    /\ Present("waist_circumference")
    /\ Given("waist_circumference") = [value |-> 3000, unit |-> "in"]

\* C3: a failed construction produces no BodyShapeMeasurements and leaves
\* every LengthMeasurement that was passed in with the value and unit it
\* had before the attempt.
C3_FailureLeavesInputsUntouched ==
    (JustConstructed /\ body.state = "failed") =>
        /\ body.fields = NoFields
        /\ lm = bcall.pre

\* C4: construction normalizes the caller's own instance in place and the
\* field of the BodyShapeMeasurements is that same instance: right after a
\* successful construction the caller's reference shows unit cm and the
\* converted value, and a value written through the field is the value
\* read through the caller's reference.
C4_NormalizesCallersInstance ==
    [][ /\ (last'.op = "BodyShapeMeasurements" /\ body'.state = "ok") =>
              \A f \in FieldNames :
                  bcall'.args[f] \in LenIds =>
                      /\ body'.fields[f] = bcall'.args[f]
                      /\ lm'[bcall'.args[f]] =
                            [value |-> CmValue(lm[bcall'.args[f]]), unit |-> "cm"]
        /\ last'.op = "setattr" =>
              \A f \in FieldNames :
                  body.fields[f] = last'.id => lm'[bcall.args[f]].value = last'.ret
      ]_vars

\* The caller's instance was 30 in when it was passed and is 76.2 cm after
\* the successful construction.
C4_Witness ==
    /\ JustConstructed
    /\ body.state = "ok"
    /\ \E f \in FieldNames :
          /\ Present(f)
          /\ Given(f) = [value |-> 3000, unit |-> "in"]
          /\ lm[bcall.args[f]] = [value |-> 7620, unit |-> "cm"]

Absent(f) == bcall.args[f] \in {Unset, None}

\* C5: an absent field (left out or None) is neither normalized nor
\* bound-checked and is stored as absent; with all five absent the
\* construction succeeds; success depends on the present fields only.
C5_AbsentFieldsSkipped ==
    JustConstructed =>
        /\ \A f \in FieldNames :
              Absent(f) => (bcall.errs[f] = "" /\ body.fields[f] = None)
        /\ \A i \in LenIds :
              (\A f \in FieldNames : bcall.args[f] # i) => lm[i] = bcall.pre[i]
        /\ (\A f \in FieldNames : Absent(f)) => (body.state = "ok" /\ lm = bcall.pre)
        /\ (body.state = "ok") <=> (\A f \in FieldNames : Present(f) => bcall.errs[f] = "")

\* Only the waist was passed, some other field was left out and some other
\* was None, and the construction succeeded.
C5_Witness ==
    /\ JustConstructed
    /\ body.state = "ok"
    /\ Present("waist_circumference")
    /\ \A f \in FieldNames \ {"waist_circumference"} : Absent(f)
    /\ \E f, g \in FieldNames : bcall.args[f] = Unset /\ bcall.args[g] = None

\* C6: the forearm has no bound of its own: every validly constructed
\* LengthMeasurement passed as forearm is accepted and normalized to cm
\* (300 ft is stored as 9144 cm).
C6_ForearmUnbounded ==
    (JustConstructed /\ Present("forearm_circumference")) =>
        /\ bcall.errs["forearm_circumference"] = ""
        /\ lm[bcall.args["forearm_circumference"]] =
              [value |-> CmValue(Given("forearm_circumference")), unit |-> "cm"]
        /\ ((\A f \in Bounded : Absent(f)) => body.state = "ok")
        /\ (Given("forearm_circumference") = [value |-> 30000, unit |-> "ft"]
              => lm[bcall.args["forearm_circumference"]].value = 914400)

\* A forearm of 300 ft was passed alone and the construction succeeded.
C6_Witness ==
    /\ JustConstructed
    /\ body.state = "ok"
    /\ Present("forearm_circumference")
    /\ Given("forearm_circumference") = [value |-> 30000, unit |-> "ft"]
    /\ lm[body.fields["forearm_circumference"]] = [value |-> 914400, unit |-> "cm"]

\* C7: the circumferences the documentation shows (wrist 18 cm, wrist
\* 17 cm, forearm 28 cm), and any wrist in [5,40] cm or neck in [8,60] cm,
\* can be built as LengthMeasurement values.
C7_DocumentedValuesConstructible ==
    (/\ last.op = "LengthMeasurement"
     /\ last.pre.unit = "cm"
     /\ 500 <= last.pre.value
     /\ last.pre.value <= 6000)
    => last.raised = ""

\* C8: normalization is idempotent: a normalization that follows a
\* normalization of the same measurement, or that is applied to a
\* measurement already in the target unit, changes nothing.
C8_NormalizeIdempotent ==
    [][ /\ (last'.op = "set_unit_to_kg"
              /\ wm.unit \in WeightUnits
              /\ (last.op = "set_unit_to_kg" \/ wm.unit = "kg"))
           => (wm' = wm /\ last'.raised = "")
        /\ \A i \in LenIds :
              (last'.op = "set_unit_to_cm" /\ last'.id = i
                 /\ lm[i].unit \in LengthUnits
                 /\ ((last.op = "set_unit_to_cm" /\ last.id = i) \/ lm[i].unit = "cm"))
              => (lm'[i] = lm[i] /\ last'.raised = "")
      ]_vars

\* A weight given as 100 lb has been normalized twice.
C8_Witness ==
    /\ last.op = "set_unit_to_kg"
    /\ last.pre = [value |-> 45359200, unit |-> "kg"]
    /\ wm = [value |-> 45359200, unit |-> "kg"]

\* C9: a normalization from lb or g (from m, in or ft) leaves the target
\* unit and the value the conversion returned immediately before the call,
\* and the conversion returns the same quantity after it as before it.
C9_NormalizeStoresConversion ==
    [][ /\ (last'.op = "set_unit_to_kg" /\ wm.unit \in {"lb", "g"}) =>
              /\ wm'.unit = "kg"
              /\ (last.op = "convert_to_kg" => wm'.value = last.ret)
              /\ convert_to_kg(wm') = convert_to_kg(wm)
        /\ (last'.op = "convert_to_kg" /\ last.op = "set_unit_to_kg"
              /\ last.pre.unit \in {"lb", "g"})
           => last'.ret = convert_to_kg(last.pre).ret
        /\ \A i \in LenIds :
              /\ (last'.op = "set_unit_to_cm" /\ last'.id = i
                    /\ lm[i].unit \in {"m", "in", "ft"}) =>
                    /\ lm'[i].unit = "cm"
                    /\ ((last.op = "convert_to_cm" /\ last.id = i)
                          => lm'[i].value = last.ret)
                    /\ convert_to_cm(lm'[i]) = convert_to_cm(lm[i])
              /\ (last'.op = "convert_to_cm" /\ last'.id = i
                    /\ last.op = "set_unit_to_cm" /\ last.id = i
                    /\ last.pre.unit \in {"m", "in", "ft"})
                 => last'.ret = convert_to_cm(last.pre).ret
      ]_vars

\* A length of 180 m has been normalized to 18000 cm.
C9_Witness ==
    /\ last.op = "set_unit_to_cm"
    /\ last.pre = [value |-> 18000, unit |-> "m"]
    /\ lm[last.id] = [value |-> 1800000, unit |-> "cm"]

\* C10: the conversions use the fixed factors: kg and cm unchanged,
\* lb x 0.453592, g / 1000, m x 100, in x 2.54, ft x 30.48 (100 lb is
\* 45.3592 kg, 70 in is 177.8 cm, 60 ft is 1828.8 cm, 180 m is 18000 cm).
C10_FixedFactors ==
    /\ (last.op = "convert_to_kg" /\ last.pre.unit \in WeightUnits) =>
          /\ last.raised = ""
          /\ last.pre.unit = "kg" => last.ret = last.pre.value
          /\ (last.pre.unit = "lb" /\ last.pre.value % 1000000 = 0)
             => last.ret = (last.pre.value \div 1000000) * 453592
          /\ (last.pre.unit = "g" /\ last.pre.value % 1000 = 0)
             => last.ret = last.pre.value \div 1000
          /\ last.pre = [value |-> 100000000, unit |-> "lb"] => last.ret = 45359200
          /\ last.pre = [value |-> 100000000, unit |-> "g"] => last.ret = 100000
    /\ (last.op = "convert_to_cm" /\ last.pre.unit \in LengthUnits) =>
          /\ last.raised = ""
          /\ last.pre.unit = "cm" => last.ret = last.pre.value
          /\ last.pre.unit = "m" => last.ret = last.pre.value * 100
          /\ last.pre.unit = "in" => last.ret * 100 = last.pre.value * 254
          /\ last.pre.unit = "ft" => last.ret * 100 = last.pre.value * 3048
          /\ last.pre = [value |-> 7000, unit |-> "in"] => last.ret = 17780
          /\ last.pre = [value |-> 6000, unit |-> "ft"] => last.ret = 182880
          /\ last.pre = [value |-> 18000, unit |-> "m"] => last.ret = 1800000

\* Each of 100 lb, 70 in, 60 ft and 180 m can be the measurement just
\* converted; this is the conversion of 60 ft.
C10_Witness ==
    /\ last.op = "convert_to_cm"
    /\ last.pre = [value |-> 6000, unit |-> "ft"]
    /\ last.ret = 182880

\* C11: convert_to_kg and convert_to_cm are pure: a call, whether it returns
\* or raises, leaves value, unit, measurement_date and measurement_time as
\* they were, and a repeated call on the unchanged measurement gives the
\* same outcome.
C11_ConversionsPure ==
    [][ /\ last'.op = "convert_to_kg" =>
              /\ wm' = wm /\ wmAt' = wmAt
              /\ last.op = "convert_to_kg"
                 => (last'.ret = last.ret /\ last'.raised = last.raised)
        /\ last'.op = "convert_to_cm" =>
              /\ lm' = lm /\ lmAt' = lmAt
              /\ (last.op = "convert_to_cm" /\ last.id = last'.id)
                 => (last'.ret = last.ret /\ last'.raised = last.raised)
      ]_vars

\* A conversion of a pound measurement taken on 29 February 2024 returned.
C11_Witness ==
    /\ last.op = "convert_to_kg"
    /\ last.raised = ""
    /\ wm = [value |-> 100000000, unit |-> "lb"]
    /\ wmAt.measurement_date = <<2024, 2, 29>>

KnownUnit ==
    \/ last.op = "convert_to_kg" /\ last.pre.unit \in WeightUnits
    \/ last.op = "convert_to_cm" /\ last.pre.unit \in LengthUnits

IsConversion == last.op \in {"convert_to_kg", "convert_to_cm"}

\* C12 as stated: a conversion of a measurement with an unknown unit fails
\* with an UnsupportedUnitError.
C12_RaisesUnsupportedUnitError ==
    (IsConversion /\ ~KnownUnit) => last.raised = "UnsupportedUnitError"

\* C12 amended: a conversion of a measurement with an unknown unit fails
\* with a ValueError raised by the conversion itself, which is not the
\* ValidationError of construction, and returns no number.
C12_RaisesValueError ==
    (IsConversion /\ ~KnownUnit) =>
        /\ last.raised = "ValueError"
        /\ last.raised # "ValidationError"
        /\ last.ret = 0

\* A length whose unit was set to "mm" has been converted.
C12_Witness ==
    /\ last.op = "convert_to_cm"
    /\ last.pre.unit = "mm"
    /\ last.pre.value > 0
    /\ last.raised = "ValueError"

\* C13: the WeightMeasurement constructor takes kg when no unit is given,
\* fails for a unit outside kg, lb, g, and fails exactly when the value as
\* given is outside (0.5, 150] (100 g accepted, 151 lb rejected); the
\* LengthMeasurement constructor likewise with cm, {cm, m, in, ft}, [30, 300].
C13_ConstructorChecksGivenValue ==
    /\ last.op = "WeightMeasurement" =>
          /\ (last.raised = "") <=>
                /\ last.pre.unit \in {"kg", "lb", "g", ""}
                /\ 500000 < last.pre.value
                /\ last.pre.value <= 150000000
          /\ last.raised \in {"", "ValidationError"}
          /\ last.raised = "" =>
                /\ wm.value = last.pre.value
                /\ wm.unit = IF last.pre.unit = "" THEN "kg" ELSE last.pre.unit
          /\ last.raised # "" => wm = NoObj
          /\ last.pre = [value |-> 100000000, unit |-> "g"] => last.raised = ""
          /\ last.pre = [value |-> 151000000, unit |-> "lb"]
             => last.raised = "ValidationError"
    /\ last.op = "LengthMeasurement" =>
          /\ (last.raised = "") <=>
                /\ last.pre.unit \in {"cm", "m", "in", "ft", ""}
                /\ 3000 <= last.pre.value
                /\ last.pre.value <= 30000
          /\ last.raised \in {"", "ValidationError"}
          /\ last.raised = "" =>
                /\ lm[last.id].value = last.pre.value
                /\ lm[last.id].unit = IF last.pre.unit = "" THEN "cm" ELSE last.pre.unit

\* A weight of 100 g has been constructed and is stored as 100 g.
C13_Witness ==
    /\ last.op = "WeightMeasurement"
    /\ last.pre = [value |-> 100000000, unit |-> "g"]
    /\ wm = [value |-> 100000000, unit |-> "g"]

\* C20: the unit of a measurement is one of the allowed units of its type
\* in every state it can reach after construction, attribute assignment
\* included, so the conversions never fail.
C20_UnitAlwaysKnown ==
    /\ wm # NoObj => wm.unit \in WeightUnits
    /\ \A i \in LenIds : lm[i] # NoObj => lm[i].unit \in LengthUnits
    /\ IsConversion => last.raised = ""

\* The oldest date of birth accepted on each day of Todays: the day
\* 150 x 365.25 days (54787 whole days) earlier.
OldestBirth(tdy) ==
    IF tdy = <<2026, 11, 3>> THEN <<1876, 11, 2>> ELSE <<1874, 2, 28>>

Tomorrow(tdy) ==
    IF tdy = <<2026, 11, 3>> THEN <<2026, 11, 4>> ELSE <<2024, 3, 1>>

\* The constraints of the fields of a Human record r on the day tdy.
NameValid(name) == \E k \in 1..Len(name) : name[k] # " "

FieldsValid(r, tdy) ==
    /\ NameValid(r.name)
    /\ r.gender \in {"male", "female", "undisclosed"}
    /\ ~DateLT(tdy, r.date_of_birth)
    /\ ~DateLT(r.date_of_birth, OldestBirth(tdy))
    /\ 5 < r.weight /\ r.weight <= 5000
    /\ 30 <= r.height /\ r.height <= 300

\* t is s without its leading and trailing blanks.
IsTrimOf(t, s) ==
    /\ t # <<>>
    /\ t[1] # " "
    /\ t[Len(t)] # " "
    /\ \E a \in 1..Len(s) :
          /\ a + Len(t) - 1 <= Len(s)
          /\ t = SubSeq(s, a, a + Len(t) - 1)
          /\ \A k \in 1..Len(s) : (k < a \/ k > a + Len(t) - 1) => s[k] = " "

\* C14: Human(...) succeeds if and only if the name is non-empty after
\* trimming, the gender is one of the three, the date of birth is not after
\* today and not before today minus 150 x 365.25 days, the weight is in
\* (0.5, 500] and the height in [30, 300]; the stored name is the trimmed
\* name; a date of birth of today is accepted, of tomorrow rejected; a
\* failure is a ValidationError and produces no record.
C14_HumanConstruction ==
    last.op = "Human" =>
        /\ (last.raised = "") <=> FieldsValid(last.pre, today)
        /\ last.raised \in {"", "ValidationError"}
        /\ last.raised = "" =>
              /\ IsTrimOf(human.name, last.pre.name)
              /\ human = [last.pre EXCEPT !.name = human.name]
        /\ last.raised # "" => human = NoHuman
        /\ last.pre.date_of_birth = Tomorrow(today) => last.raised = "ValidationError"
        /\ (/\ last.pre.date_of_birth = today
            /\ FieldsValid([last.pre EXCEPT !.date_of_birth = <<1990, 5, 15>>], today))
           => last.raised = ""

\* A Human born today, with a name given with blanks around it, was built.
C14_Witness ==
    /\ last.op = "Human"
    /\ last.raised = ""
    /\ last.pre.date_of_birth = today
    /\ last.pre.name = <<" ", "J", " ", "D", " ">>
    /\ human.name = <<"J", " ", "D">>

\* C15: once a Human is constructed its fields satisfy the field
\* constraints in every later state, whatever reads and field assignments
\* follow: an assignment that would break a constraint is rejected and
\* leaves the record unchanged.
C15_HumanAlwaysValid ==
    human # NoHuman => FieldsValid(human, today)

\* C16: get_age is today's year minus the year of birth, minus 1 exactly
\* when today's (month, day) is before the birth's; it is 0 for a birth
\* today, the difference of the years for a birth on 1 January, and never
\* negative for a date of birth that is not after today.
C16_Age ==
    last.op = "get_age" =>
        LET b == last.pre.date_of_birth
            before == today[2] < b[2] \/ (today[2] = b[2] /\ today[3] < b[3])
        IN  /\ last.ret = today[1] - b[1] - (IF before THEN 1 ELSE 0)
            /\ b = today => last.ret = 0
            /\ (b[2] = 1 /\ b[3] = 1 /\ b[1] < today[1]) => last.ret = today[1] - b[1]
            /\ ~DateLT(today, b) => last.ret >= 0

\* The age of a Human born today has been read.
C16_Witness ==
    /\ last.op = "get_age"
    /\ human.date_of_birth = today
    /\ last.ret = 0

PairValid(r) ==
    /\ 5 < r.weight /\ r.weight <= 5000
    /\ 30 <= r.height /\ r.height <= 300

\* C17: for every valid (weight, height) pair the BMI is weight /
\* (height/100)^2 rounded to 2 decimals, i.e. the hundredth nearest to the
\* quotient (75 kg at 175 cm gives 24.49), and the division is defined.
C17_Bmi ==
    (last.op = "bmi" /\ PairValid(last.pre)) =>
        LET n == last.pre.weight * 100000
            d == last.pre.height * last.pre.height
            e == last.ret * d - n
        IN  /\ last.raised = ""
            /\ 2 * e <= d
            /\ 0 - 2 * e <= d
            /\ (last.pre.weight = 750 /\ last.pre.height = 175) => last.ret = 2449

\* The BMI of 75 kg at 175 cm has been read.
C17_Witness ==
    /\ last.op = "bmi"
    /\ human.weight = 750
    /\ human.height = 175
    /\ last.ret = 2449

\* The bucket of a BMI given in hundredths.
Bucket(b) ==
    IF b < 1850 THEN "Underweight"
    ELSE IF b < 2500 THEN "Normal weight"
    ELSE IF b < 3000 THEN "Overweight"
    ELSE "Obese"

\* C18: bmi_category is the bucket of the BMI of the record's current
\* weight and height (18.5, 25.0 and 30.0 in the upper bucket), also right
\* after a change of weight or height.
C18_CategoryOfLiveBmi ==
    (last.op = "bmi_category" /\ human.height # 0) =>
        /\ last.raised = ""
        /\ last.ret = Bucket(bmi(human).ret)
        /\ (human.weight = 740 /\ human.height = 200) => last.ret = "Normal weight"
        /\ (human.weight = 1000 /\ human.height = 200) => last.ret = "Overweight"
        /\ (human.weight = 1200 /\ human.height = 200) => last.ret = "Obese"
        /\ (human.weight = 750 /\ human.height = 175) => last.ret = "Normal weight"

\* The category was read after the weight was changed to 120 kg (a weight
\* no construction of the model gives) at 200 cm: BMI 30.0, Obese.
C18_Witness ==
    /\ last.op = "bmi_category"
    /\ human.weight = 1200
    /\ human.height = 200
    /\ last.ret = "Obese"

\* What a call of op leaves and returns when it runs alone on the
\* measurement o.
Alone(op, o) ==
    IF op = "set_unit_to_kg"
    THEN [self |-> set_unit_to_kg(o).self, raised |-> set_unit_to_kg(o).raised, ret |-> 0]
    ELSE IF op = "set_unit_to_cm"
    THEN [self |-> set_unit_to_cm(o).self, raised |-> set_unit_to_cm(o).raised, ret |-> 0]
    ELSE IF op = "convert_to_kg"
    THEN [self |-> o, raised |-> convert_to_kg(o).raised, ret |-> convert_to_kg(o).ret]
    ELSE [self |-> o, raised |-> convert_to_cm(o).raised, ret |-> convert_to_cm(o).ret]

\* What thread t observed of its own call.
Observed(t) ==
    [raised |-> thr[t].raised,
     ret |-> IF thr[t].op \in {"convert_to_kg", "convert_to_cm"} THEN thr[t].ret ELSE 0]

BothDone == \A t \in Threads : thr[t].pc = "done"

\* The state is the one some sequential execution of the two calls (a
\* first, then b) leaves, with the results the two callers got.
Sequential ==
    \E a \in Threads :
        LET b == Other(a)
            ra == Alone(thr[a].op, thr[a].at)
            rb == Alone(thr[b].op, ra.self)
        IN  /\ Shared(thr[a].op) = rb.self
            /\ Observed(a) = [raised |-> ra.raised, ret |-> ra.ret]
            /\ Observed(b) = [raised |-> rb.raised, ret |-> rb.ret]

\* C19: in-place normalization is not safe for concurrent use of one
\* instance: a final state or result that no sequential execution of the
\* two calls produces (the factor applied twice, a converted value read
\* with the old unit) is reachable (C19_Witness), and it arises only when
\* the two calls were interleaved; calls that do not overlap always leave a
\* sequential outcome.
C19_OnlyInterleavingBreaks ==
    (BothDone /\ ~Sequential) => \E t \in Threads : thr[t].overlap

\* Two set_unit_to_kg calls on a weight of 100 lb have ended with the
\* factor applied twice: 100 x 0.453592 x 0.453592 = 20.5745702464 kg.
C19_Witness ==
    /\ BothDone
    /\ ~Sequential
    /\ \A t \in Threads : thr[t].op = "set_unit_to_kg"
    /\ thr[1].at = [value |-> 100000000, unit |-> "lb"]
    /\ wm = [value |-> 20574570, unit |-> "kg"]

LowerBounded == {"waist_circumference", "hip_circumference", "wrist_circumference"}

\* C21: the lower bounds of waist (20), hip (20) and wrist (5) are
\* unreachable: every LengthMeasurement that reaches the bound checks of
\* BodyShapeMeasurements has a centimeter value of at least 30, and a field
\* that validate_waist, validate_hip or validate_wrist rejects is above its
\* upper bound.
C21_LowerBoundsUnreachable ==
    JustConstructed =>
        \A f \in LowerBounded :
            Present(f) =>
                /\ CmValue(Given(f)) >= 3000
                /\ bcall.errs[f] = Interval(f).msg => CmValue(Given(f)) > Interval(f).hi

\* C22 as stated: every measurement keeps the value range of its type
\* through any sequence of conversions and normalizations: a length has
\* 30 <= value <= 300 and a unit of cm, m, in, ft; a weight has
\* 0.5 < value <= 150 and a unit of kg, lb, g.
C22_RangeAlways ==
    /\ \A i \in LenIds :
          lm[i] # NoObj =>
              /\ lm[i].unit \in LengthUnits
              /\ 3000 <= lm[i].value
              /\ lm[i].value <= 30000
    /\ wm # NoObj =>
          /\ wm.unit \in WeightUnits
          /\ 500000 < wm.value
          /\ wm.value <= 150000000

\* C22 amended: the unit stays one of the type's units and the range holds
\* for the value in the unit the measurement was constructed with; a
\* normalization stores the converted value unchecked, so a length in cm
\* lies in [30, 30000] (300 m) and a weight in kg in (0.0005, 150] (0.5 g
\* excluded).  A measurement just constructed is inside the range.
C22_RangeInGivenUnit ==
    /\ \A i \in LenIds :
          lm[i] # NoObj =>
              /\ lm[i].unit \in LengthUnits
              /\ 3000 <= lm[i].value
              /\ lm[i].unit # "cm" => lm[i].value <= 30000
              /\ lm[i].unit = "cm" => lm[i].value <= 3000000
    /\ wm # NoObj =>
          /\ wm.unit \in WeightUnits
          /\ wm.value <= 150000000
          /\ wm.unit # "kg" => 500000 < wm.value
          /\ wm.unit = "kg" => 500 < wm.value
    /\ (last.op = "LengthMeasurement" /\ last.raised = "") =>
          (3000 <= lm[last.id].value /\ lm[last.id].value <= 30000)
    /\ (last.op = "WeightMeasurement" /\ last.raised = "") =>
          (500000 < wm.value /\ wm.value <= 150000000)

\* A length of 180 m has been normalized to 18000 cm, next to a weight of
\* 100 g normalized to 0.1 kg.
C22_Witness ==
    /\ last.op = "set_unit_to_cm"
    /\ last.pre = [value |-> 18000, unit |-> "m"]
    /\ lm[last.id] = [value |-> 1800000, unit |-> "cm"]
    /\ wm = [value |-> 100000, unit |-> "kg"]

IsNormalization == last.op \in {"set_unit_to_kg", "set_unit_to_cm"}

UnknownUnit ==
    \/ last.op = "set_unit_to_kg" /\ last.pre.unit \notin WeightUnits
    \/ last.op = "set_unit_to_cm" /\ last.pre.unit \notin LengthUnits

\* The measurement the last call was made on, as it is now.
Receiver == IF last.op = "set_unit_to_kg" THEN wm ELSE lm[last.id]

\* C23: a normalization that fails leaves the measurement untouched:
\* set_unit_to_kg or set_unit_to_cm on a measurement whose unit is not a
\* known one raises the conversion's error before either field is written,
\* so value and unit are as before the call; a normalization of a known
\* unit does not fail.
C23_FailedNormalizationWritesNothing ==
    IsNormalization =>
        /\ UnknownUnit =>
              /\ last.raised = "ValueError"
              /\ Receiver = last.pre
        /\ last.raised # "" => (UnknownUnit /\ Receiver = last.pre)

\* set_unit_to_kg has failed on a weight whose unit was set to "oz", and
\* the weight still is 70.5 oz.
C23_Witness ==
    /\ last.op = "set_unit_to_kg"
    /\ last.raised = "ValueError"
    /\ last.pre = [value |-> 70500000, unit |-> "oz"]
    /\ wm = [value |-> 70500000, unit |-> "oz"]

====
